---- MODULE Spec2Model ----
(***************************************************************************)
(* A state-machine model of Seq2SeqTrainer                                 *)
(* (src/training/ss_transformer_trainer.py): the construction of the       *)
(* optimizer parameter groups, build_optimizer, the training loop of       *)
(* train_model, eval_model and the batch adapter _get_inputs_dict.         *)
(*                                                                         *)
(* Conventions.                                                            *)
(*  - A parameter name is a sequence of tokens, the dots included          *)
(*    ("layer.0.bias" is <<"layer", ".", "0", ".", "bias">>), so that the  *)
(*    `pattern in name` substring tests of the code are computed.          *)
(*  - A Python dict is a function from its keys to its values.             *)
(*  - Losses are small integers produced by the opaque model; quotients    *)
(*    of them are kept as reduced fractions <<num, den>>.                  *)
(*  - warmup_ratio is a fraction <<num, den>> with den a power of two, so  *)
(*    that the float product iteration_in_total * warmup_ratio is exact.   *)
(***************************************************************************)
EXTENDS Integers, Sequences, FiniteSets, TLC

(***************************************************************************)
(* Bounds of the model.                                                    *)
(***************************************************************************)
MaxEpochs == 2
MaxTrainLen == 3
MaxGas == 3
MaxCalls == 3
MaxSetData == 1
MaxTestLen == 5
MaxEvalBatch == 2
MaxLabelLen == 3

(***************************************************************************)
(* Generic helpers.                                                        *)
(***************************************************************************)
Range(s) == {s[i] : i \in DOMAIN s}

RECURSIVE GCD(_, _)
GCD(a, b) == IF b = 0 THEN a ELSE GCD(b, a % b)

\* The float n / d for a non-negative integer n and a positive integer d,
\* identified by its reduced fraction.
Frac(n, d) == LET g == GCD(n, d) IN IF g = 0 THEN <<0, 1>> ELSE <<n \div g, d \div g>>

\* math.ceil(n / d) for n >= 0, d > 0
Ceil(n, d) == (n + d - 1) \div d

\* `pat in name` on token sequences: pat occurs as a contiguous run of name.
Contains(name, pat) ==
    \E i \in 0..(Len(name) - Len(pat)) :
        \A j \in 1..Len(pat) : name[i + j] = pat[j]

\* dict.pop(key) when the key is present: the dict without the key.
Pop(d, key) == [k \in (DOMAIN d) \ {key} |-> d[k]]

\* {**d} followed by d[key] = value
With(d, key, value) == [k \in (DOMAIN d) \cup {key} |-> IF k = key THEN value ELSE d[k]]

\* The elements of the sequence s that satisfy Test, in order.
RECURSIVE SelectNames(_, _)
SelectNames(s, T) ==
    IF s = <<>> THEN <<>>
    ELSE (IF Head(s) \in T THEN <<Head(s)>> ELSE <<>>) \o SelectNames(Tail(s), T)

(***************************************************************************)
(* The model's named parameters (model.named_parameters(), in order).      *)
(* A parameter is identified with its name.                                *)
(***************************************************************************)
P_L0W == <<"layer", ".", "0", ".", "weight">>
P_L0B == <<"layer", ".", "0", ".", "bias">>
P_L1N == <<"layer", ".", "1", ".", "LayerNorm", ".", "weight">>
P_HEAD == <<"head", ".", "weight">>

NamedParameters == <<P_L0W, P_L0B, P_L1N, P_HEAD>>

ParamNames == Range(NamedParameters)

\* no_decay = ["bias", "LayerNorm.weight"]
no_decay == << <<"bias">>, <<"LayerNorm", ".", "weight">> >>

\* any(nd in n for nd in no_decay)
IsNoDecay(n) == \E i \in DOMAIN no_decay : Contains(n, no_decay[i])

\* f"layer.{layer_number}."
LayerPattern(layer_number) == <<"layer", ".", layer_number, ".">>


(***************************************************************************)
(* Parameter groups, train_model lines 63-115.                             *)
(***************************************************************************)

\* for group in self.args.custom_parameter_groups: ... (lines 67-72).
\* st = [raised, groups, names, ogp]: groups is the list being iterated (its
\* dicts are mutated by pop), names is custom_parameter_names, ogp is
\* optimizer_grouped_parameters. group.pop("params") raises KeyError when the
\* key is absent, which ends train_model.
RECURSIVE CustomParameterGroupsLoop(_, _)
CustomParameterGroupsLoop(st, i) ==
    IF i > Len(st.groups) THEN st
    ELSE IF "params" \notin DOMAIN st.groups[i] THEN [st EXCEPT !.raised = TRUE]
    ELSE LET params == st.groups[i]["params"]
             group == Pop(st.groups[i], "params")
             param_group == With(group, "params", SelectNames(NamedParameters, params))
         IN CustomParameterGroupsLoop(
                [raised |-> FALSE,
                 groups |-> [st.groups EXCEPT ![i] = group],
                 names |-> st.names \cup params,
                 ogp |-> Append(st.ogp, param_group)], i + 1)

\* for group in self.args.custom_layer_parameters: ... (lines 74-93)
RECURSIVE CustomLayerParametersLoop(_, _)
CustomLayerParametersLoop(st, i) ==
    IF i > Len(st.groups) THEN st
    ELSE IF "layer" \notin DOMAIN st.groups[i] THEN [st EXCEPT !.raised = TRUE]
    ELSE LET layer == LayerPattern(ToString(st.groups[i]["layer"]))
             group == Pop(st.groups[i], "layer")
             claimed == {n \in ParamNames : n \notin st.names /\ Contains(n, layer)}
             params_d == SelectNames(NamedParameters, {n \in claimed : ~IsNoDecay(n)})
             params_nd == SelectNames(NamedParameters, {n \in claimed : IsNoDecay(n)})
             group_d == With(group, "params", params_d)
             group_nd == With(With(group, "weight_decay", 0), "params", params_nd)
         IN CustomLayerParametersLoop(
                [raised |-> FALSE,
                 groups |-> [st.groups EXCEPT ![i] = group],
                 names |-> st.names \cup claimed,
                 ogp |-> st.ogp \o <<group_d, group_nd>>], i + 1)

\* if not self.args.train_custom_parameters_only: extend(...) (lines 95-115)
DefaultGroups(a, names) ==
    IF a.train_custom_parameters_only THEN <<>>
    ELSE << [params |-> SelectNames(NamedParameters,
                            {n \in ParamNames : n \notin names /\ ~IsNoDecay(n)}),
             weight_decay |-> a.weight_decay],
            [params |-> SelectNames(NamedParameters,
                            {n \in ParamNames : n \notin names /\ IsNoDecay(n)}),
             weight_decay |-> 0] >>

\* Lines 63-115 as a whole: the configuration after the pops, the groups
\* built, and whether a KeyError ended the call.
BuildParameterGroups(a) ==
    LET s1 == CustomParameterGroupsLoop(
                  [raised |-> FALSE, groups |-> a.custom_parameter_groups,
                   names |-> {}, ogp |-> <<>>], 1)
        s2 == IF s1.raised
              THEN [raised |-> TRUE, groups |-> a.custom_layer_parameters,
                    names |-> s1.names, ogp |-> s1.ogp]
              ELSE CustomLayerParametersLoop(
                       [raised |-> FALSE, groups |-> a.custom_layer_parameters,
                        names |-> s1.names, ogp |-> s1.ogp], 1)
    IN [raised |-> s2.raised,
        args |-> [a EXCEPT !.custom_parameter_groups = s1.groups,
                           !.custom_layer_parameters = s2.groups],
        optimizer_grouped_parameters |->
            IF s2.raised THEN s2.ogp ELSE s2.ogp \o DefaultGroups(a, s2.names)]

(***************************************************************************)
(* build_optimizer, lines 281-292.                                         *)
(***************************************************************************)

\* math.ceil(iteration_in_total * self.args.warmup_ratio)
WarmupFromRatio(iteration_in_total, warmup_ratio) ==
    Ceil(iteration_in_total * warmup_ratio[1], warmup_ratio[2])

\* self.args.warmup_steps after line 283
WarmupSteps(a, iteration_in_total) ==
    IF a.warmup_steps = 0
    THEN WarmupFromRatio(iteration_in_total, a.warmup_ratio)
    ELSE a.warmup_steps

\* (Variant: the optimizer is given the list built by train_model.)
OptimizerParamGroupsFromList(model_parameters, optimizer_grouped_parameters) ==
    optimizer_grouped_parameters

\* The parameter groups of the optimizer that lines 285-288 construct. Both
\* AdamW and SGD are given model.parameters(), a plain iterable of
\* parameters, which the optimizer wraps in a single group; the list
\* optimizer_grouped_parameters built by train_model is not passed on.
OptimizerParamGroups(model_parameters, optimizer_grouped_parameters) ==
    << [params |-> model_parameters] >>

OptimizerFamily(fl_algorithm) ==
    IF fl_algorithm = "FedOPT" \/ fl_algorithm = "" THEN "AdamW" ELSE "SGD"

\* iteration_in_total, lines 117-118
IterationInTotal(train_len, a) ==
    (train_len \div a.gradient_accumulation_steps) * a.epochs


(***************************************************************************)
(* State.                                                                  *)
(*   cli_args   the training configuration as created from the command     *)
(*              line, before any call (never assigned again)               *)
(*   args       self.args, the configuration object the trainer reads and  *)
(*              writes                                                     *)
(*   train_dl   len(self.train_dl)                                         *)
(*   test_dl    self.test_dl: [dataset_len, batch_size]                    *)
(*   weights    the model's parameters, identified by the number of        *)
(*              optimizer updates applied to them so far                   *)
(*   pc         the trainer's position: "idle" between calls, else the     *)
(*              statement of train_model / eval_model about to run         *)
(*   tr         the frame of the current (or last) train_model call        *)
(*   ev         the frame of the current (or last) eval_model call         *)
(*   results    self.results                                               *)
(*   eval_file  the lines of <output_dir>/eval_results.txt                 *)
(*   last_eval  the weights and test data of the call that last wrote      *)
(*              eval_file, and whether there was one                       *)
(*   calls      how many train_model / eval_model calls were started       *)
(*   tokenizer  the pad ids of self.encoder_tokenizer and                  *)
(*              self.decoder_tokenizer                                    *)
(*   batch      the caller's batch handed to _get_inputs_dict (its         *)
(*              tensors as they are after the call, once it has run)       *)
(*   inputs     the mapping _get_inputs_dict returned                      *)
(***************************************************************************)
VARIABLES cli_args, args, train_dl, test_dl, weights, pc, tr, ev, results,
          eval_file, last_eval, calls, tokenizer, batch, inputs

vars == <<cli_args, args, train_dl, test_dl, weights, pc, tr, ev, results,
          eval_file, last_eval, calls, tokenizer, batch, inputs>>

\* The loss the opaque model returns for batch b of a stream under weights w
\* (outputs[0]): deterministic in the weights and the batch.
Loss(w, b) == 1 + ((w + b) % 2)

\* Fractions: a + b, and a / n for an integer n > 0.
FracAdd(a, b) == Frac(a[1] * b[2] + b[1] * a[2], a[2] * b[2])
FracDiv(a, n) == Frac(a[1], a[2] * n)

\* The locals of train_model before the call has run. train_len is
\* len(self.train_dl) as read at line 117; grads lists the batches whose
\* gradients sit in the parameters' .grad; applied lists, for every optimizer
\* step of the call, the batches whose gradients it used; events lists what the current
\* batch iteration has done so far; batches_processed counts backward passes.
NoTrainFrame ==
    [optimizer_grouped_parameters |-> <<>>,
     train_len |-> 0,
     iteration_in_total |-> 0,
     optimizer |-> [family |-> "", param_groups |-> <<>>],
     scheduler |-> [num_warmup_steps |-> 0, num_training_steps |-> 0, steps |-> 0],
     global_step |-> 0,
     tr_loss |-> <<0, 1>>,
     global_model |-> 0,
     epoch |-> 0,
     batch_idx |-> 0,
     loss |-> <<0, 1>>,
     grads |-> <<>>,
     applied |-> <<>>,
     events |-> <<>>,
     batches_processed |-> 0,
     outcome |-> "none",
     ret |-> <<0, <<0, 1>>>>]

(***************************************************************************)
(* set_data, lines 47-50: the data of the next round, once the trainer has *)
(* been used.                                                              *)
(***************************************************************************)
SetData(tl, sl) ==
    /\ pc = "idle"
    /\ calls.train + calls.eval > 0
    /\ calls.set_data < MaxSetData
    /\ train_dl' = tl
    /\ test_dl' = [dataset_len |-> sl, batch_size |-> args.eval_batch_size]
    /\ calls' = [calls EXCEPT !.set_data = @ + 1]
    /\ UNCHANGED <<cli_args, args, weights, pc, tr, ev, results, eval_file,
                   last_eval, tokenizer, batch, inputs>>

(***************************************************************************)
(* train_model, lines 52-210.                                              *)
(***************************************************************************)

\* Lines 52-115: the parameter groups. A KeyError from group.pop ends the call.
TrainBegin ==
    /\ pc = "idle"
    /\ calls.train + calls.eval < MaxCalls
    /\ LET b == BuildParameterGroups(args)
       IN /\ args' = b.args
          /\ tr' = [NoTrainFrame EXCEPT
                        !.optimizer_grouped_parameters = b.optimizer_grouped_parameters,
                        !.outcome = IF b.raised THEN "KeyError" ELSE "running"]
          /\ pc' = IF b.raised THEN "idle" ELSE "build_optimizer"
    /\ calls' = [calls EXCEPT !.train = @ + 1]
    /\ UNCHANGED <<cli_args, train_dl, test_dl, weights, ev, results, eval_file,
                   last_eval, tokenizer, batch, inputs>>

\* Lines 117-119 with build_optimizer, lines 281-292.
BuildOptimizer ==
    /\ pc = "build_optimizer"
    /\ LET iteration_in_total == IterationInTotal(train_dl, args)
           warmup == WarmupSteps(args, iteration_in_total)
       IN /\ args' = [args EXCEPT !.warmup_steps = warmup]
          /\ tr' = [tr EXCEPT
                        !.train_len = train_dl,
                        !.iteration_in_total = iteration_in_total,
                        !.optimizer =
                            [family |-> OptimizerFamily(args.fl_algorithm),
                             param_groups |->
                                 OptimizerParamGroups(NamedParameters,
                                     tr.optimizer_grouped_parameters)],
                        !.scheduler =
                            [num_warmup_steps |-> warmup,
                             num_training_steps |-> iteration_in_total,
                             steps |-> 0]]
    /\ pc' = "init_training_state"
    /\ UNCHANGED <<cli_args, train_dl, test_dl, weights, ev, results, eval_file,
                   last_eval, calls, tokenizer, batch, inputs>>

\* Lines 123-147: counters, model.zero_grad(), the FedProx snapshot.
InitTrainingState ==
    /\ pc = "init_training_state"
    /\ tr' = [tr EXCEPT !.global_step = 0, !.tr_loss = <<0, 1>>, !.grads = <<>>,
                        !.epoch = 0,
                        !.global_model =
                            IF args.fl_algorithm = "FedProx" THEN weights ELSE 0]
    /\ pc' = "epoch_idle"
    /\ UNCHANGED <<cli_args, args, train_dl, test_dl, weights, ev, results,
                   eval_file, last_eval, calls, tokenizer, batch, inputs>>

\* Line 151-155: the next epoch begins (the stream is never empty here).
EpochBegin ==
    /\ pc = "epoch_idle"
    /\ tr.epoch < args.epochs
    /\ tr' = [tr EXCEPT !.batch_idx = 0, !.events = <<>>]
    /\ pc' = "batch_forward"
    /\ UNCHANGED <<cli_args, args, train_dl, test_dl, weights, ev, results,
                   eval_file, last_eval, calls, tokenizer, batch, inputs>>

\* Lines 159-181: inputs, forward pass, the FedProx term, current_loss.
\* The FedProx term (mu / 2) * ||p - g_p||^2 is taken over the distance of
\* the weights from the snapshot.
BatchForward ==
    /\ pc = "batch_forward"
    /\ LET d == weights - tr.global_model
           fed_prox_reg == IF args.fl_algorithm = "FedProx"
                           THEN (args.fedprox_mu * d * d) \div 2 ELSE 0
       IN tr' = [tr EXCEPT !.loss = <<Loss(weights, tr.batch_idx) + fed_prox_reg, 1>>,
                           !.events = <<"forward">>]
    /\ pc' = "batch_backward"
    /\ UNCHANGED <<cli_args, args, train_dl, test_dl, weights, ev, results,
                   eval_file, last_eval, calls, tokenizer, batch, inputs>>

\* The statements of the optimizer-step block, lines 197-208, in order.
StepBlock(fp16) ==
    (IF fp16 THEN <<"unscale">> ELSE <<>>)
        \o <<"clip", "optimizer_step", "scheduler_step", "zero_grad", "incr_global_step">>

\* (Variant: gradients are zeroed before the optimizer has used them.)
StepSuccZeroFirst(stmt, fp16) ==
    LET blk == (IF fp16 THEN <<"unscale">> ELSE <<>>)
                   \o <<"clip", "zero_grad", "optimizer_step", "scheduler_step",
                        "incr_global_step">>
        i == CHOOSE k \in DOMAIN blk : blk[k] = stmt
    IN IF i = Len(blk) THEN "next_batch" ELSE blk[i + 1]

\* The statement that follows stmt in the block; "next_batch" after the last.
StepSucc(stmt, fp16) ==
    LET blk == StepBlock(fp16)
        i == CHOOSE k \in DOMAIN blk : blk[k] = stmt
    IN IF i = Len(blk) THEN "next_batch" ELSE blk[i + 1]

\* (Variant: the test of line 196 without the + 1.)
StepDueOffByOne(batch_idx, gradient_accumulation_steps) ==
    batch_idx % gradient_accumulation_steps = 0

\* Line 196: does this batch trigger an optimizer step?
StepDue(batch_idx, gradient_accumulation_steps) ==
    (batch_idx + 1) % gradient_accumulation_steps = 0

\* Lines 183-196: scale the loss, backward, accumulate tr_loss, test line 196.
BatchBackward ==
    /\ pc = "batch_backward"
    /\ LET loss == IF args.gradient_accumulation_steps > 1
                   THEN FracDiv(tr.loss, args.gradient_accumulation_steps)
                   ELSE tr.loss
       IN tr' = [tr EXCEPT !.loss = loss,
                           !.grads = Append(@, <<tr.epoch, tr.batch_idx>>),
                           !.tr_loss = FracAdd(@, loss),
                           !.events = Append(@, "backward"),
                           !.batches_processed = @ + 1]
    /\ pc' = IF StepDue(tr.batch_idx, args.gradient_accumulation_steps)
             THEN Head(StepBlock(args.fp16)) ELSE "next_batch"
    /\ UNCHANGED <<cli_args, args, train_dl, test_dl, weights, ev, results,
                   eval_file, last_eval, calls, tokenizer, batch, inputs>>

\* Line 198: scaler.unscale_(optimizer)
Unscale ==
    /\ pc = "unscale"
    /\ tr' = [tr EXCEPT !.events = Append(@, "unscale")]
    /\ pc' = StepSucc("unscale", args.fp16)
    /\ UNCHANGED <<cli_args, args, train_dl, test_dl, weights, ev, results,
                   eval_file, last_eval, calls, tokenizer, batch, inputs>>

\* Line 199: clip_grad_norm_
ClipGradNorm ==
    /\ pc = "clip"
    /\ tr' = [tr EXCEPT !.events = Append(@, "clip")]
    /\ pc' = StepSucc("clip", args.fp16)
    /\ UNCHANGED <<cli_args, args, train_dl, test_dl, weights, ev, results,
                   eval_file, last_eval, calls, tokenizer, batch, inputs>>

\* Lines 201-205: scaler.step(optimizer); scaler.update(), or optimizer.step().
\* The accumulated gradients are applied to the weights. (Whether the
\* GradScaler skips the inner update on non-finite gradients is the
\* library's business; the call made here is the step.)
OptimizerStep ==
    /\ pc = "optimizer_step"
    /\ weights' = weights + 1
    /\ tr' = [tr EXCEPT !.events = Append(@, "optimizer_step"),
                        !.applied = Append(@, tr.grads)]
    /\ pc' = StepSucc("optimizer_step", args.fp16)
    /\ UNCHANGED <<cli_args, args, train_dl, test_dl, ev, results, eval_file,
                   last_eval, calls, tokenizer, batch, inputs>>

\* Line 206: scheduler.step()
SchedulerStep ==
    /\ pc = "scheduler_step"
    /\ tr' = [tr EXCEPT !.events = Append(@, "scheduler_step"),
                        !.scheduler.steps = @ + 1]
    /\ pc' = StepSucc("scheduler_step", args.fp16)
    /\ UNCHANGED <<cli_args, args, train_dl, test_dl, weights, ev, results,
                   eval_file, last_eval, calls, tokenizer, batch, inputs>>

\* Line 207: self.model.zero_grad()
ZeroGrad ==
    /\ pc = "zero_grad"
    /\ tr' = [tr EXCEPT !.events = Append(@, "zero_grad"), !.grads = <<>>]
    /\ pc' = StepSucc("zero_grad", args.fp16)
    /\ UNCHANGED <<cli_args, args, train_dl, test_dl, weights, ev, results,
                   eval_file, last_eval, calls, tokenizer, batch, inputs>>

\* Line 208: global_step += 1
IncrGlobalStep ==
    /\ pc = "incr_global_step"
    /\ tr' = [tr EXCEPT !.events = Append(@, "incr_global_step"),
                        !.global_step = @ + 1]
    /\ pc' = StepSucc("incr_global_step", args.fp16)
    /\ UNCHANGED <<cli_args, args, train_dl, test_dl, weights, ev, results,
                   eval_file, last_eval, calls, tokenizer, batch, inputs>>

\* Line 155: enumerate(self.train_dl) yields the next batch, or the epoch ends.
NextBatch ==
    /\ pc = "next_batch"
    /\ IF tr.batch_idx + 1 < train_dl
       THEN /\ tr' = [tr EXCEPT !.batch_idx = @ + 1, !.events = <<>>]
            /\ pc' = "batch_forward"
       ELSE /\ tr' = [tr EXCEPT !.epoch = @ + 1, !.events = <<>>]
            /\ pc' = "epoch_idle"
    /\ UNCHANGED <<cli_args, args, train_dl, test_dl, weights, ev, results,
                   eval_file, last_eval, calls, tokenizer, batch, inputs>>

\* Line 210: return global_step, tr_loss / global_step. The division raises
\* ZeroDivisionError when no optimizer step was taken.
TrainReturn ==
    /\ pc = "epoch_idle"
    /\ tr.epoch >= args.epochs
    /\ IF tr.global_step = 0
       THEN tr' = [tr EXCEPT !.outcome = "ZeroDivisionError"]
       ELSE tr' = [tr EXCEPT !.outcome = "returned",
                             !.ret = <<tr.global_step,
                                       FracDiv(tr.tr_loss, tr.global_step)>>]
    /\ pc' = "idle"
    /\ UNCHANGED <<cli_args, args, train_dl, test_dl, weights, ev, results,
                   eval_file, last_eval, calls, tokenizer, batch, inputs>>


(***************************************************************************)
(* eval_model, lines 212-279.                                              *)
(***************************************************************************)
EmptyDict == [k \in {} |-> 0]

\* d.update(e)
Update(d, e) ==
    [k \in (DOMAIN d) \cup (DOMAIN e) |-> IF k \in DOMAIN e THEN e[k] ELSE d[k]]

\* The metric names in sorted() order.
KeyOrder == <<"eval_loss", "f1_score", "precision", "recall">>

\* sorted(result.keys())
SortedKeys(d) == SelectNames(KeyOrder, DOMAIN d)

\* "{} = {}\n".format(key, str(result[key])) for key in sorted(result.keys()):
\* a line is the key, the separator and the value's text (str of a float is
\* one-to-one on floats, so the value stands for its text).
ResultLines(result) ==
    LET keys == SortedKeys(result)
    IN [j \in 1..Len(keys) |-> <<keys[j], "=", result[keys[j]]>>]

\* (Variant: the file is opened in append mode.)
WriteFileAppend(old_lines, lines) == old_lines \o lines

\* open(output_eval_file, "w") and the writes: the file's lines afterwards.
WriteFile(old_lines, lines) == lines

\* len(self.test_dl): the loader keeps the last, shorter batch.
LoaderLen(dl) == Ceil(dl.dataset_len, dl.batch_size)

\* (Variant: the last batch's end index is not clamped.)
EndIndexUnclamped(i, start_index, eval_batch_size, n_batches, test_sample_len) ==
    start_index + eval_batch_size

\* Line 249
EndIndex(i, start_index, eval_batch_size, n_batches, test_sample_len) ==
    IF i # n_batches - 1 THEN start_index + eval_batch_size ELSE test_sample_len

\* self.predict(to_predict): one generated label per evaluation example.
Predict(w, n) == [k \in 1..n |-> (w + k) % 2]

\* The reference labels of the evaluation examples.
References(n) == [k \in 1..n |-> k % 2]

\* self.compute_metrics(references, model_preds): precision, recall and F1
\* of the generated output against the references.
ComputeMetrics(references, model_preds) ==
    LET hits == Cardinality({k \in DOMAIN references : references[k] = model_preds[k]})
        score == Frac(hits, Len(references))
    IN [precision |-> score, recall |-> score, f1_score |-> score]

NoEvalFrame ==
    [n_batches |-> 0, test_sample_len |-> 0, i |-> 0, eval_loss |-> <<0, 1>>,
     nb_eval_steps |-> 0, ranges |-> <<>>, result |-> EmptyDict,
     model_preds_bound |-> FALSE, model_preds |-> <<>>,
     outcome |-> "none", ret |-> EmptyDict]

\* Lines 213-232
EvalBegin ==
    /\ pc = "idle"
    /\ calls.train + calls.eval < MaxCalls
    /\ ev' = [NoEvalFrame EXCEPT !.n_batches = LoaderLen(test_dl),
                                 !.test_sample_len = test_dl.dataset_len,
                                 !.outcome = "running"]
    /\ pc' = "eval_batch"
    /\ calls' = [calls EXCEPT !.eval = @ + 1]
    /\ UNCHANGED <<cli_args, args, train_dl, test_dl, weights, tr, results,
                   eval_file, last_eval, tokenizer, batch, inputs>>

\* Lines 233-250: one batch of the evaluation stream.
EvalBatch ==
    /\ pc = "eval_batch"
    /\ ev.i < LoaderLen(test_dl)
    /\ LET start_index == args.eval_batch_size * ev.i
           end_index == EndIndex(ev.i, start_index, args.eval_batch_size,
                                 ev.n_batches, ev.test_sample_len)
       IN ev' = [ev EXCEPT !.eval_loss = FracAdd(@, <<Loss(weights, ev.i), 1>>),
                           !.nb_eval_steps = @ + 1,
                           !.ranges = Append(@, <<start_index, end_index>>),
                           !.i = @ + 1]
    /\ UNCHANGED <<cli_args, args, train_dl, test_dl, weights, pc, tr, results,
                   eval_file, last_eval, calls, tokenizer, batch, inputs>>

\* Lines 252-267: the mean loss, the results file, self.results.
EvalFinish ==
    /\ pc = "eval_batch"
    /\ ev.i >= LoaderLen(test_dl)
    /\ LET eval_loss == FracDiv(ev.eval_loss, ev.nb_eval_steps)
           result == [eval_loss |-> eval_loss]
       IN /\ ev' = [ev EXCEPT !.eval_loss = eval_loss, !.result = result]
          /\ eval_file' = WriteFile(eval_file, ResultLines(result))
          /\ results' = Update(results, result)
    /\ last_eval' = [written |-> TRUE, weights |-> weights, test_dl |-> test_dl]
    /\ pc' = IF args.evaluate_generated_text THEN "eval_generate" ELSE "eval_return"
    /\ UNCHANGED <<cli_args, args, train_dl, test_dl, weights, tr, calls,
                   tokenizer, batch, inputs>>

\* Lines 269-275: generation and its metrics.
EvalGenerate ==
    /\ pc = "eval_generate"
    /\ LET references == References(ev.test_sample_len)
           model_preds == Predict(weights, ev.test_sample_len)
           result == ComputeMetrics(references, model_preds)
       IN /\ ev' = [ev EXCEPT !.model_preds = model_preds,
                              !.model_preds_bound = TRUE,
                              !.result = result]
          /\ results' = Update(results, result)
    /\ pc' = "eval_return"
    /\ UNCHANGED <<cli_args, args, train_dl, test_dl, weights, tr, eval_file,
                   last_eval, calls, tokenizer, batch, inputs>>

\* Lines 277-279: return result, model_preds, None. Reading model_preds raises
\* UnboundLocalError when line 272 never assigned it.
EvalReturn ==
    /\ pc = "eval_return"
    /\ IF ev.model_preds_bound
       THEN ev' = [ev EXCEPT !.outcome = "returned", !.ret = ev.result]
       ELSE ev' = [ev EXCEPT !.outcome = "UnboundLocalError"]
    /\ pc' = "idle"
    /\ UNCHANGED <<cli_args, args, train_dl, test_dl, weights, tr, results,
                   eval_file, last_eval, calls, tokenizer, batch, inputs>>


(***************************************************************************)
(* _get_inputs_dict, lines 294-327. A tensor is a sequence of rows of      *)
(* equal length.                                                           *)
(***************************************************************************)
IgnoreIndex == -100

\* t[:, :-1]
DropLastColumn(t) == [r \in DOMAIN t |-> SubSeq(t[r], 1, Len(t[r]) - 1)]

\* t[:, 1:]
DropFirstColumn(t) == [r \in DOMAIN t |-> SubSeq(t[r], 2, Len(t[r]))]

\* t[cond == pad_token_id] = -100, for cond of the shape of t
MaskedFill(t, cond, pad_token_id) ==
    [r \in DOMAIN t |->
        [c \in DOMAIN t[r] |-> IF cond[r][c] = pad_token_id THEN IgnoreIndex ELSE t[r][c]]]

\* (Variant: no copy is taken.)
CloneAlias(t) == [shares_storage |-> TRUE, data |-> t]

\* t.clone(): a new tensor with the same elements, sharing no storage with t.
Clone(t) == [shares_storage |-> FALSE, data |-> t]

\* Lines 296-308: bart, marian
BartInputs(b, tok) ==
    LET pad_token_id == tok.encoder_pad
        y == b.target_ids
        y_ids == DropLastColumn(y)
        lm_labels == MaskedFill(Clone(DropFirstColumn(y)).data, DropFirstColumn(y),
                                pad_token_id)
    IN [inputs |-> [input_ids |-> b.source_ids, attention_mask |-> b.source_mask,
                    decoder_input_ids |-> y_ids, labels |-> lm_labels],
        batch |-> b]

\* Lines 309-315: mbart
MbartInputs(b) ==
    [inputs |-> [input_ids |-> b.input_ids, attention_mask |-> b.attention_mask,
                 decoder_input_ids |-> b.decoder_input_ids, labels |-> b.labels],
     batch |-> b]

\* Lines 316-325: every other model type; the batch is a tuple. The masked
\* assignment of line 319 writes through to lm_labels when the two share
\* storage.
DefaultInputs(b, tok) ==
    LET lm_labels == b[2]
        cl == Clone(lm_labels)
        lm_labels_masked == MaskedFill(cl.data, cl.data, tok.decoder_pad)
        lm_labels_after == IF cl.shares_storage THEN lm_labels_masked ELSE lm_labels
    IN [inputs |-> [input_ids |-> b[1], decoder_input_ids |-> lm_labels_after,
                    labels |-> lm_labels_masked],
        batch |-> <<b[1], lm_labels_after>>]

GetInputsDict(model_type, b, tok) ==
    IF model_type \in {"bart", "marian"} THEN BartInputs(b, tok)
    ELSE IF model_type \in {"mbart"} THEN MbartInputs(b)
    ELSE DefaultInputs(b, tok)

CallGetInputsDict ==
    /\ pc = "get_inputs_dict"
    /\ LET r == GetInputsDict(args.model_type, batch, tokenizer)
       IN /\ inputs' = r.inputs
          /\ batch' = r.batch
    /\ pc' = "got_inputs_dict"
    /\ UNCHANGED <<cli_args, args, train_dl, test_dl, weights, tr, ev, results,
                   eval_file, last_eval, calls, tokenizer>>

(***************************************************************************)
(* Configurations and initial states.                                      *)
(***************************************************************************)
BaseArgs ==
    [custom_parameter_groups |-> <<>>,
     custom_layer_parameters |-> <<>>,
     train_custom_parameters_only |-> FALSE,
     weight_decay |-> 1,
     gradient_accumulation_steps |-> 1,
     epochs |-> 1,
     fp16 |-> FALSE,
     warmup_ratio |-> <<1, 4>>,
     warmup_steps |-> 0,
     fl_algorithm |-> "FedOPT",
     fedprox_mu |-> 2,
     evaluate_generated_text |-> FALSE,
     eval_batch_size |-> 1,
     model_type |-> "t5"]

CustomParameterGroupChoices ==
    { <<>>,
      << [params |-> {P_HEAD}, lr |-> 3] >>,
      << [params |-> {P_HEAD, P_L0B}, lr |-> 3],
         [params |-> {P_HEAD}, weight_decay |-> 0] >> }

CustomLayerParameterChoices ==
    { <<>>, << [layer |-> 0, lr |-> 2] >> }

WarmupRatios == { <<0, 1>>, <<1, 4>>, <<1, 2>> }

\* Configurations that vary what the optimizer is built from.
OptimizerArgs ==
    { [BaseArgs EXCEPT !.custom_parameter_groups = cpg,
                       !.custom_layer_parameters = clp,
                       !.train_custom_parameters_only = only,
                       !.warmup_ratio = wr,
                       !.warmup_steps = ws] :
        cpg \in CustomParameterGroupChoices, clp \in CustomLayerParameterChoices,
        only \in BOOLEAN, wr \in WarmupRatios, ws \in {0, 2} }

\* Configurations that vary the training loop.
LoopArgs ==
    { [BaseArgs EXCEPT !.epochs = e,
                       !.gradient_accumulation_steps = g,
                       !.fp16 = f,
                       !.fl_algorithm = fl] :
        e \in 0..MaxEpochs, g \in 1..MaxGas, f \in BOOLEAN,
        fl \in {"FedOPT", "FedProx"} }

\* Configurations that vary the evaluation.
EvalArgs ==
    { [BaseArgs EXCEPT !.fp16 = TRUE,
                       !.evaluate_generated_text = gen,
                       !.eval_batch_size = bs] :
        gen \in BOOLEAN, bs \in 1..MaxEvalBatch }

InitWith(a, tl, sl) ==
    /\ cli_args = a
    /\ args = a
    /\ train_dl = tl
    /\ test_dl = [dataset_len |-> sl, batch_size |-> a.eval_batch_size]
    /\ weights = 0
    /\ pc = "idle"
    /\ tr = NoTrainFrame
    /\ ev = NoEvalFrame
    /\ results = EmptyDict
    /\ eval_file = <<>>
    /\ last_eval = [written |-> FALSE, weights |-> 0,
                    test_dl |-> [dataset_len |-> sl, batch_size |-> a.eval_batch_size]]
    /\ calls = [train |-> 0, eval |-> 0, set_data |-> 0]
    /\ tokenizer = [encoder_pad |-> 0, decoder_pad |-> 0]
    /\ batch = <<>>
    /\ inputs = EmptyDict

\* The trainer as constructed, for training and evaluation.
Init ==
    \E a \in EvalArgs, tl \in 1..MaxTrainLen, sl \in 1..MaxTestLen : InitWith(a, tl, sl)

\* The trainer as constructed, for training alone.
InitTrain ==
    \E a \in OptimizerArgs \cup LoopArgs, tl \in 1..MaxTrainLen : InitWith(a, tl, 1)

TrainStep ==
    \/ TrainBegin
    \/ BuildOptimizer
    \/ InitTrainingState
    \/ EpochBegin
    \/ BatchForward
    \/ BatchBackward
    \/ Unscale
    \/ ClipGradNorm
    \/ OptimizerStep
    \/ SchedulerStep
    \/ ZeroGrad
    \/ IncrGlobalStep
    \/ NextBatch
    \/ TrainReturn

EvalStep ==
    \/ EvalBegin
    \/ EvalBatch
    \/ EvalFinish
    \/ EvalGenerate
    \/ EvalReturn

NextTrain ==
    \/ \E tl \in 1..MaxTrainLen : SetData(tl, test_dl.dataset_len)
    \/ TrainStep

Next ==
    \/ \E sl \in 1..MaxTestLen : SetData(train_dl, sl)
    \/ TrainStep
    \/ EvalStep

Spec == Init /\ [][Next]_vars

SpecTrain == InitTrain /\ [][NextTrain]_vars

(***************************************************************************)
(* The batch adapter on its own: every batch of every model family.        *)
(***************************************************************************)
TokenIds == 0..2

\* The tensors of `rows` rows of length len over TokenIds.
Tensors(rows, len) == [1..rows -> [1..len -> TokenIds]]

LabelTensors == UNION { Tensors(rows, len) : rows \in {1, 2}, len \in 1..MaxLabelLen }

InputTensor == << <<1, 2>> >>

BatchesOf(model_type) ==
    IF model_type \in {"bart", "marian"}
    THEN { [source_ids |-> InputTensor, source_mask |-> InputTensor, target_ids |-> y] :
             y \in LabelTensors }
    ELSE IF model_type = "mbart"
    THEN { [input_ids |-> InputTensor, attention_mask |-> InputTensor,
            decoder_input_ids |-> y, labels |-> y] : y \in LabelTensors }
    ELSE { <<InputTensor, y>> : y \in LabelTensors }

InitAdapter ==
    \E mt \in {"bart", "marian", "mbart", "t5"}, ep \in TokenIds, dp \in TokenIds :
        \E b \in BatchesOf(mt) :
            /\ cli_args = [BaseArgs EXCEPT !.model_type = mt]
            /\ args = cli_args
            /\ train_dl = 1
            /\ test_dl = [dataset_len |-> 1, batch_size |-> args.eval_batch_size]
            /\ weights = 0
            /\ pc = "get_inputs_dict"
            /\ tr = NoTrainFrame
            /\ ev = NoEvalFrame
            /\ results = EmptyDict
            /\ eval_file = <<>>
            /\ last_eval = [written |-> FALSE, weights |-> 0, test_dl |-> test_dl]
            /\ calls = [train |-> 0, eval |-> 0, set_data |-> 0]
            /\ tokenizer = [encoder_pad |-> ep, decoder_pad |-> dp]
            /\ batch = b
            /\ inputs = EmptyDict

NextAdapter == CallGetInputsDict

SpecAdapter == InitAdapter /\ [][NextAdapter]_vars


(***************************************************************************)
(* Properties.                                                             *)
(***************************************************************************)

\* A train_model call is under way and its optimizer has been built.
OptimizerBuilt == tr.outcome = "running" /\ pc # "build_optimizer"

\* How many times the parameter n is listed in the groups.
Occurrences(n, groups) ==
    Cardinality(UNION { { <<g, k>> : k \in {j \in DOMAIN groups[g].params :
                                              groups[g].params[j] = n} } :
                        g \in DOMAIN groups })

\* A train_model call is under way and no batch is in flight: before a
\* batch's forward pass, after its iteration, or between epochs.
AtBatchBoundary ==
    tr.outcome = "running" /\ pc \in {"epoch_idle", "batch_forward", "next_batch"}

\* C1: once train_model has built its optimizer, every named model
\* parameter is listed exactly once in the parameter groups of that
\* optimizer, whatever the custom groups, custom layers and
\* train_custom_parameters_only are.
C1_EveryParameterInExactlyOneGroup ==
    OptimizerBuilt =>
        \A n \in ParamNames : Occurrences(n, tr.optimizer.param_groups) = 1

\* C1 witness: the optimizer was built under a configuration with
\* overlapping custom groups and train_custom_parameters_only, where the list
\* optimizer_grouped_parameters itself lists a parameter twice and omits
\* another.
C1_Witness ==
    /\ OptimizerBuilt
    /\ cli_args.train_custom_parameters_only
    /\ Len(cli_args.custom_parameter_groups) = 2
    /\ \E n \in ParamNames : Occurrences(n, tr.optimizer_grouped_parameters) = 2
    /\ \E n \in ParamNames : Occurrences(n, tr.optimizer_grouped_parameters) = 0

\* C2 (as stated): between batches, global_step is the floor of the number
\* of batches processed over all epochs divided by
\* gradient_accumulation_steps.
C2_StepsAreFloorOfAllBatches ==
    AtBatchBoundary =>
        tr.global_step = tr.batches_processed \div args.gradient_accumulation_steps

\* C2 (amended): between batches, global_step is floor(len(train_dl) /
\* gradient_accumulation_steps) for every completed epoch plus the floor of
\* the batches processed in the current epoch divided by
\* gradient_accumulation_steps; with gradient_accumulation_steps = 1 it is
\* the number of batches processed.
C2_StepsAreFloorPerEpoch ==
    AtBatchBoundary =>
        LET gas == args.gradient_accumulation_steps
            done == tr.batches_processed \div tr.train_len
            here == tr.batches_processed % tr.train_len
        IN /\ tr.global_step = done * (tr.train_len \div gas) + (here \div gas)
           /\ gas = 1 => tr.global_step = tr.batches_processed

\* C2 witness: two epochs of three batches with two accumulation steps have
\* been processed, and two optimizer steps were taken (not three).
C2_Witness ==
    /\ AtBatchBoundary
    /\ pc = "epoch_idle"
    /\ tr.train_len = 3
    /\ args.gradient_accumulation_steps = 2
    /\ tr.batches_processed = 6
    /\ tr.global_step = 2

\* C3: on every build_optimizer call, the scheduler's warmup-step count is
\* ceil(total_steps * warmup_ratio) when the configured warmup_steps is 0,
\* and the configured warmup_steps otherwise.
C3_WarmupFollowsConfiguration ==
    OptimizerBuilt =>
        tr.scheduler.num_warmup_steps =
            IF cli_args.warmup_steps = 0
            THEN WarmupFromRatio(tr.iteration_in_total, cli_args.warmup_ratio)
            ELSE cli_args.warmup_steps


\* The model type takes the default branch of _get_inputs_dict.
DefaultBranch == args.model_type \notin {"bart", "marian", "mbart"}

\* C4: in the default branch of _get_inputs_dict the returned labels are
\* the raw labels with exactly the positions holding the decoder pad id set
\* to -100, decoder_input_ids are the raw labels, and the caller's batch is
\* left as it was.
C4_DefaultBranchMasksOnlyPadPositions ==
    [][(pc = "get_inputs_dict" /\ DefaultBranch) =>
          LET raw == batch[2]
          IN /\ DOMAIN inputs'.labels = DOMAIN raw
             /\ \A r \in DOMAIN raw :
                    /\ DOMAIN inputs'.labels[r] = DOMAIN raw[r]
                    /\ \A c \in DOMAIN raw[r] :
                           /\ raw[r][c] = tokenizer.decoder_pad
                                  => inputs'.labels[r][c] = IgnoreIndex
                           /\ raw[r][c] # tokenizer.decoder_pad
                                  => inputs'.labels[r][c] = raw[r][c]
             /\ inputs'.decoder_input_ids = raw
             /\ batch' = batch]_vars

\* C4 witness: the default branch has run on labels holding both a pad and a
\* non-pad token, and the returned labels hold -100 and an unmasked token.
C4_Witness ==
    /\ pc = "got_inputs_dict"
    /\ DefaultBranch
    /\ \E r \in DOMAIN batch[2] : \E c, d \in DOMAIN batch[2][r] :
           /\ batch[2][r][c] = tokenizer.decoder_pad
           /\ inputs.labels[r][c] = IgnoreIndex
           /\ batch[2][r][d] # tokenizer.decoder_pad
           /\ inputs.labels[r][d] = batch[2][r][d]

\* C5: the (start_index, end_index) ranges eval_model computes are
\* contiguous from 0 and non-empty; every non-final batch spans
\* eval_batch_size rows, and the final batch ends at test_sample_len.
C5_EvalRangesPartitionTheSamples ==
    ev.outcome = "running" =>
        \A k \in DOMAIN ev.ranges :
            /\ ev.ranges[k][1] = (k - 1) * args.eval_batch_size
            /\ ev.ranges[k][1] = (IF k = 1 THEN 0 ELSE ev.ranges[k - 1][2])
            /\ ev.ranges[k][1] < ev.ranges[k][2]
            /\ k < ev.n_batches
                   => ev.ranges[k][2] = ev.ranges[k][1] + args.eval_batch_size
            /\ k = ev.n_batches => ev.ranges[k][2] = ev.test_sample_len

\* C5 witness: batch size 2 with 5 samples has given (0,2), (2,4), (4,5).
C5_Witness ==
    /\ ev.outcome = "running"
    /\ args.eval_batch_size = 2
    /\ ev.test_sample_len = 5
    /\ ev.ranges = << <<0, 2>>, <<2, 4>>, <<4, 5>> >>

\* An eval_model call has ended, by returning or by raising.
EvalEnded == ev.outcome \notin {"none", "running"}

\* C6: every eval_model call on a non-empty stream iterates the stream once,
\* leaves eval_loss as the mean of the batch losses, writes the results file
\* and returns normally; generation runs only if evaluate_generated_text.
C6_EvalModelReturnsNormally ==
    EvalEnded =>
        /\ ev.outcome = "returned"
        /\ ev.nb_eval_steps = ev.n_batches
        /\ last_eval.written
        /\ ev.model_preds_bound <=> args.evaluate_generated_text

\* The metric names an ended eval_model call has produced.
MetricsOfCall == {"eval_loss"} \cup DOMAIN ev.result

C7_FileHoldsLatestEvalLoss ==
    EvalEnded =>
        /\ Len(eval_file) = 1
        /\ eval_file[1][1] = "eval_loss"
        /\ eval_file[1][3] = Frac(ev.eval_loss[1], ev.eval_loss[2])
        /\ results.eval_loss = ev.eval_loss
        /\ \A k \in DOMAIN ev.result : results[k] = ev.result[k]

\* C7 (amended), the step part: a call that writes the file under the same
\* weights and test data as the call that wrote it last leaves its content
\* as it was.
C7_SameModelAndDataSameFile ==
    (/\ pc = "eval_batch" /\ pc' # "eval_batch"
     /\ last_eval.written
     /\ last_eval.weights = weights
     /\ last_eval.test_dl = test_dl)
        => eval_file' = eval_file

C8_ConfigurationUnchanged ==
    \A f \in (DOMAIN args) \ {"warmup_steps"} : args[f] = cli_args[f]

\* What the statements of one batch iteration with an optimizer step are,
\* in order.
StepEvent(fp16) ==
    <<"forward", "backward">> \o (IF fp16 THEN <<"unscale">> ELSE <<>>)
        \o <<"clip", "optimizer_step", "scheduler_step", "zero_grad", "incr_global_step">>

IsPrefix(a, b) == Len(a) <= Len(b) /\ SubSeq(b, 1, Len(a)) = a

\* C9: what a batch iteration has done is always a prefix of: forward,
\* backward, unscale (fp16 only), clip, optimizer step, scheduler step,
\* zero_grad, global_step increment; an iteration ends either after the
\* backward pass or after the whole sequence, so no scheduler step or
\* zero_grad comes without its optimizer step; and between batches the
\* scheduler has stepped exactly global_step times.
C9_StepEventOrder ==
    tr.outcome = "running" =>
        /\ IsPrefix(tr.events, StepEvent(args.fp16))
        /\ pc = "next_batch" =>
               tr.events \in {<<"forward", "backward">>, StepEvent(args.fp16)}
        /\ AtBatchBoundary => tr.scheduler.steps = tr.global_step

\* C9 witness: a batch iteration under fp16 has run the whole step event.
C9_Witness ==
    /\ tr.outcome = "running"
    /\ pc = "next_batch"
    /\ args.fp16
    /\ tr.events = StepEvent(TRUE)
    /\ tr.global_step = 2

\* C10: a train_model call that runs its epochs ends by returning
\* (global_step, tr_loss / global_step) after exactly epochs * len(train_dl)
\* batches.
C10_TrainModelReturnsStepAndMeanLoss ==
    (pc = "idle" /\ tr.outcome \in {"returned", "ZeroDivisionError"}) =>
        /\ tr.outcome = "returned"
        /\ tr.batches_processed = args.epochs * tr.train_len
        /\ tr.ret = <<tr.global_step, FracDiv(tr.tr_loss, tr.global_step)>>


\* How many optimizer steps of the call used the gradient of batch b of
\* epoch e.
TimesApplied(e, b) ==
    Cardinality({k \in DOMAIN tr.applied : <<e, b>> \in Range(tr.applied[k])})

\* C11: every optimizer step of train_model uses the gradients of exactly
\* gradient_accumulation_steps batches, all of one epoch, and when
\* train_model returns every processed batch's gradient has been used by
\* exactly one optimizer step.
C11_EveryStepAppliesOneGroupOfBatches ==
    /\ tr.outcome \in {"running", "returned"} =>
           \A k \in DOMAIN tr.applied :
               /\ Len(tr.applied[k]) = args.gradient_accumulation_steps
               /\ \A i, j \in DOMAIN tr.applied[k] :
                      tr.applied[k][i][1] = tr.applied[k][j][1]
    /\ tr.outcome = "returned" =>
           \A e \in 0..(tr.epoch - 1), b \in 0..(tr.train_len - 1) :
               TimesApplied(e, b) = 1

====
